---------------------------- MODULE Spec2Model ----------------------------
(***************************************************************************)
(* Model of scripts/build_powerplants.py: the conventional power plants    *)
(* of the powerplantmatching database are restricted to the countries of   *)
(* the network, optionally filtered, merged with the custom plants,        *)
(* corrected by the nuclear tables and attached, per country, to the       *)
(* nearest low-voltage substation; the table is then written to csv.       *)
(*                                                                         *)
(* A table (DataFrame) is a sequence of records; the row label is the      *)
(* position in the sequence.  Coordinates are integers in hundredths of a  *)
(* degree, so squared Euclidean distances are exact.  A missing value      *)
(* (NaN) of the bus column is the string NaN.  The field src of a plant    *)
(* row names the file the row was read from; no step of the program reads  *)
(* it.                                                                     *)
(***************************************************************************)
EXTENDS Integers, Sequences, FiniteSets, TLC

VARIABLES
    n_buses,             \* n.buses of the base network (line 198)
    pm_powerplants,      \* the powerplantmatching table before .query (lines 201-203)
    custom_csv,          \* data/custom_powerplants.csv as read by pd.read_csv (line 93)
    ppl_query,           \* config electricity.powerplants_filter (line 218)
    custom_ppl_query,    \* config electricity.custom_powerplants (line 90)
    countries,           \* n.buses.country.unique() (line 199)
    ppl,                 \* the working table
    nuc,                 \* the copy of the nuclear rows (line 173)
    k,                   \* position of the running loop in its table or list
    cntries_without_ppl, \* line 226
    stdout,              \* the lines printed by correct_nuclear_data
    warnings,            \* the records handed to logging.warning
    csv,                 \* the rows of the output file
    written,             \* whether the output file exists
    completed,           \* the stages of the script that ran to their end
    pc                   \* the statement the script is at

vars == <<n_buses, pm_powerplants, custom_csv, ppl_query, custom_ppl_query,
          countries, ppl, nuc, k, cntries_without_ppl, stdout, warnings,
          csv, written, completed, pc>>

inputs == <<n_buses, pm_powerplants, custom_csv, ppl_query, custom_ppl_query>>

-----------------------------------------------------------------------------
(* Bounds of the model: the largest tables the inputs are drawn from.      *)
MaxBuses == 2
MaxBase == 2
MaxCustom == 1

NaN == "NaN"

-----------------------------------------------------------------------------
(* Input catalogues.  The network, the database and the custom file are    *)
(* sub-tables (rows kept in order) of these.  S4 is nearer to the plants   *)
(* at (500, 4500) than any French substation; the plant at (750, 4751) is  *)
(* as far from S1 as from S2; S5 is no low-voltage substation.             *)

BusCatalogue ==
  <<
    [id |-> "S1", country |-> "FR", x |-> 501,  y |-> 4501, substation_lv |-> TRUE],
    [id |-> "S2", country |-> "FR", x |-> 1000, y |-> 5000, substation_lv |-> TRUE],
    [id |-> "S4", country |-> "DE", x |-> 500,  y |-> 4501, substation_lv |-> TRUE],
    [id |-> "S5", country |-> "DE", x |-> 900,  y |-> 5000, substation_lv |-> FALSE]
  >>

BaseCatalogue ==
  <<
    [Name |-> "Fessenheim Unit 1", Fueltype |-> "Nuclear", Technology |-> "Steam Turbine",
     Country |-> "FR", Capacity |-> 1760, DateIn |-> 1977, lon |-> 500, lat |-> 4500,
     bus |-> NaN, src |-> "base"],
    [Name |-> "Brokdorf", Fueltype |-> "Nuclear", Technology |-> "Steam Turbine",
     Country |-> "DE", Capacity |-> 1410, DateIn |-> 1986, lon |-> 900, lat |-> 5300,
     bus |-> NaN, src |-> "base"],
    [Name |-> "Chooz GT", Fueltype |-> "Natural Gas", Technology |-> "Steam Turbine",
     Country |-> "FR", Capacity |-> 300, DateIn |-> 2006, lon |-> 750, lat |-> 4751,
     bus |-> NaN, src |-> "base"],
    [Name |-> "Solarpark", Fueltype |-> "Solar", Technology |-> "Pv",
     Country |-> "FR", Capacity |-> 10, DateIn |-> 2012, lon |-> 499, lat |-> 4499,
     bus |-> NaN, src |-> "base"]
  >>

CustomCatalogue ==
  <<
    [Name |-> "Emsland KKE", Fueltype |-> "Nuclear", Technology |-> "Steam Turbine",
     Country |-> "DE", Capacity |-> 1400, DateIn |-> 1988, lon |-> 900, lat |-> 5000,
     bus |-> "X9", src |-> "custom"],
    [Name |-> "CHOOZ-civaux", Fueltype |-> "Nuclear", Technology |-> "Steam Turbine",
     Country |-> "FR", Capacity |-> 1500, DateIn |-> 1996, lon |-> 1000, lat |-> 5000,
     bus |-> NaN, src |-> "custom"]
  >>

(* The sub-tables of cat with at most max rows: the rows at the chosen     *)
(* positions, in the order of cat.                                         *)
RECURSIVE Pick(_, _, _)
Pick(cat, S, i) ==
    IF i > Len(cat) THEN << >>
    ELSE (IF i \in S THEN <<cat[i]>> ELSE << >>) \o Pick(cat, S, i + 1)

SubTables(cat, max) ==
    { Pick(cat, S, 1) : S \in { T \in SUBSET (1..Len(cat)) : Cardinality(T) <= max } }

(* The values the two configuration options take.  The YAML booleans are   *)
(* written False and True_; every other value is a Python str: a pandas    *)
(* query, or a string pandas cannot parse.                                 *)
False == "false"
True_ == "true"
NotInDE == "Country not in ['DE']"
InDE == "Country in ['DE']"
Unparseable == "Country not in ['DE'"

PowerplantsFilters == {False, NotInDE, Unparseable}
CustomPowerplants == {False, True_, InDE, Unparseable}

\* isinstance(q, str)
IsStr(q) == q \notin {False, True_}

\* not q
Not(q) == q = False

-----------------------------------------------------------------------------
(* The correction tables of correct_nuclear_data, in declaration order.    *)
(* The module text is ASCII: i' and s^ stand for i-acute and s-caron, each *)
(* one character in Chars.                                                 *)

YearCommercial ==
  <<
    [key |-> "St laurent", value |-> 1983],
    [key |-> "Gravelines", value |-> 1985],
    [key |-> "Paluel", value |-> 1986],
    [key |-> "Penly", value |-> 1992],
    [key |-> "Nogent", value |-> 1989],
    [key |-> "Golfech", value |-> 1994],
    [key |-> "St alban", value |-> 1987],
    [key |-> "Belleville", value |-> 1989],
    [key |-> "Blayais", value |-> 1983],
    [key |-> "Cruas", value |-> 1985],
    [key |-> "Fessenheim", value |-> 1978],
    [key |-> "Flamanville", value |-> 2005],
    [key |-> "Dampierre", value |-> 1981],
    [key |-> "Chinon", value |-> 1988],
    [key |-> "Bugey", value |-> 1980],
    [key |-> "Cattenom", value |-> 1992],
    [key |-> "Chooz", value |-> 2000],
    [key |-> "Civaux", value |-> 2002],
    [key |-> "Tricastin", value |-> 1981],
    [key |-> "Dukovany", value |-> 1987],
    [key |-> "Temeli'n", value |-> 2003],
    [key |-> "Bohunice", value |-> 1985],
    [key |-> "Mochovce", value |-> 2000],
    [key |-> "Krs^ko", value |-> 1983],
    [key |-> "Ringhals", value |-> 1983],
    [key |-> "Oskarshamn", value |-> 1985],
    [key |-> "Forsmark", value |-> 1985],
    [key |-> "Olkiluoto", value |-> 2019]
  >>

Capacity ==
  <<
    [key |-> "St laurent", value |-> 1830],
    [key |-> "Gravelines", value |-> 5460],
    [key |-> "Paluel", value |-> 5320],
    [key |-> "Penly", value |-> 2660],
    [key |-> "Nogent", value |-> 2620],
    [key |-> "Golfech", value |-> 2620],
    [key |-> "St alban", value |-> 2670],
    [key |-> "Belleville", value |-> 2620],
    [key |-> "Blayais", value |-> 3640],
    [key |-> "Cruas", value |-> 3660],
    [key |-> "Fessenheim", value |-> 0],
    [key |-> "Flamanville", value |-> 4260],
    [key |-> "Dampierre", value |-> 3560],
    [key |-> "Chinon", value |-> 3620],
    [key |-> "Bugey", value |-> 3580],
    [key |-> "Cattenom", value |-> 5200],
    [key |-> "Chooz", value |-> 3000],
    [key |-> "Civaux", value |-> 2990],
    [key |-> "Tricastin", value |-> 3660],
    [key |-> "Ringhals", value |-> 2166],
    [key |-> "Oskarshamn", value |-> 1400],
    [key |-> "Forsmark", value |-> 3269],
    [key |-> "Dukovany", value |-> 1878],
    [key |-> "Temeli'n", value |-> 2006],
    [key |-> "Bohunice", value |-> 943],
    [key |-> "Mochovce", value |-> 872],
    [key |-> "Krs^ko", value |-> 688],
    [key |-> "Olkiluoto", value |-> 1600],
    [key |-> "Brokdorf", value |-> 0],
    [key |-> "Emsland", value |-> 0],
    [key |-> "Grohnde", value |-> 0],
    [key |-> "Gundremmingen", value |-> 0],
    [key |-> "Isar", value |-> 0],
    [key |-> "Neckarwestheim", value |-> 0],
    [key |-> "Philippsburg", value |-> 0],
    [key |-> "Biblis", value |-> 0],
    [key |-> "Unterweser", value |-> 0],
    [key |-> "Grafenrheinfeld", value |-> 0],
    [key |-> "Kruemmel", value |-> 0]
  >>

\* the characters of the strings the script searches and searches for
Chars ==
     ("Fessenheim Unit 1" :> <<"F", "e", "s", "s", "e", "n", "h", "e", "i", "m", " ", "U", "n", "i", "t", " ", "1">>)
  @@ ("Brokdorf" :> <<"B", "r", "o", "k", "d", "o", "r", "f">>)
  @@ ("CHOOZ-civaux" :> <<"C", "H", "O", "O", "Z", "-", "c", "i", "v", "a", "u", "x">>)
  @@ ("Chooz GT" :> <<"C", "h", "o", "o", "z", " ", "G", "T">>)
  @@ ("Solarpark" :> <<"S", "o", "l", "a", "r", "p", "a", "r", "k">>)
  @@ ("Emsland KKE" :> <<"E", "m", "s", "l", "a", "n", "d", " ", "K", "K", "E">>)
  @@ ("St laurent" :> <<"S", "t", " ", "l", "a", "u", "r", "e", "n", "t">>)
  @@ ("Gravelines" :> <<"G", "r", "a", "v", "e", "l", "i", "n", "e", "s">>)
  @@ ("Paluel" :> <<"P", "a", "l", "u", "e", "l">>)
  @@ ("Penly" :> <<"P", "e", "n", "l", "y">>)
  @@ ("Nogent" :> <<"N", "o", "g", "e", "n", "t">>)
  @@ ("Golfech" :> <<"G", "o", "l", "f", "e", "c", "h">>)
  @@ ("St alban" :> <<"S", "t", " ", "a", "l", "b", "a", "n">>)
  @@ ("Belleville" :> <<"B", "e", "l", "l", "e", "v", "i", "l", "l", "e">>)
  @@ ("Blayais" :> <<"B", "l", "a", "y", "a", "i", "s">>)
  @@ ("Cruas" :> <<"C", "r", "u", "a", "s">>)
  @@ ("Fessenheim" :> <<"F", "e", "s", "s", "e", "n", "h", "e", "i", "m">>)
  @@ ("Flamanville" :> <<"F", "l", "a", "m", "a", "n", "v", "i", "l", "l", "e">>)
  @@ ("Dampierre" :> <<"D", "a", "m", "p", "i", "e", "r", "r", "e">>)
  @@ ("Chinon" :> <<"C", "h", "i", "n", "o", "n">>)
  @@ ("Bugey" :> <<"B", "u", "g", "e", "y">>)
  @@ ("Cattenom" :> <<"C", "a", "t", "t", "e", "n", "o", "m">>)
  @@ ("Chooz" :> <<"C", "h", "o", "o", "z">>)
  @@ ("Civaux" :> <<"C", "i", "v", "a", "u", "x">>)
  @@ ("Tricastin" :> <<"T", "r", "i", "c", "a", "s", "t", "i", "n">>)
  @@ ("Dukovany" :> <<"D", "u", "k", "o", "v", "a", "n", "y">>)
  @@ ("Temeli'n" :> <<"T", "e", "m", "e", "l", "i'", "n">>)
  @@ ("Bohunice" :> <<"B", "o", "h", "u", "n", "i", "c", "e">>)
  @@ ("Mochovce" :> <<"M", "o", "c", "h", "o", "v", "c", "e">>)
  @@ ("Krs^ko" :> <<"K", "r", "s^", "k", "o">>)
  @@ ("Ringhals" :> <<"R", "i", "n", "g", "h", "a", "l", "s">>)
  @@ ("Oskarshamn" :> <<"O", "s", "k", "a", "r", "s", "h", "a", "m", "n">>)
  @@ ("Forsmark" :> <<"F", "o", "r", "s", "m", "a", "r", "k">>)
  @@ ("Olkiluoto" :> <<"O", "l", "k", "i", "l", "u", "o", "t", "o">>)
  @@ ("Emsland" :> <<"E", "m", "s", "l", "a", "n", "d">>)
  @@ ("Grohnde" :> <<"G", "r", "o", "h", "n", "d", "e">>)
  @@ ("Gundremmingen" :> <<"G", "u", "n", "d", "r", "e", "m", "m", "i", "n", "g", "e", "n">>)
  @@ ("Isar" :> <<"I", "s", "a", "r">>)
  @@ ("Neckarwestheim" :> <<"N", "e", "c", "k", "a", "r", "w", "e", "s", "t", "h", "e", "i", "m">>)
  @@ ("Philippsburg" :> <<"P", "h", "i", "l", "i", "p", "p", "s", "b", "u", "r", "g">>)
  @@ ("Biblis" :> <<"B", "i", "b", "l", "i", "s">>)
  @@ ("Unterweser" :> <<"U", "n", "t", "e", "r", "w", "e", "s", "e", "r">>)
  @@ ("Grafenrheinfeld" :> <<"G", "r", "a", "f", "e", "n", "r", "h", "e", "i", "n", "f", "e", "l", "d">>)
  @@ ("Kruemmel" :> <<"K", "r", "u", "e", "m", "m", "e", "l">>)

\* str.lower of one character (re.IGNORECASE compares characters case-folded)
LowerMap ==
     ("A" :> "a") @@ ("B" :> "b") @@ ("C" :> "c") @@ ("D" :> "d") @@ ("E" :> "e")
  @@ ("F" :> "f") @@ ("G" :> "g") @@ ("H" :> "h") @@ ("I" :> "i") @@ ("J" :> "j")
  @@ ("K" :> "k") @@ ("L" :> "l") @@ ("M" :> "m") @@ ("N" :> "n") @@ ("O" :> "o")
  @@ ("P" :> "p") @@ ("Q" :> "q") @@ ("R" :> "r") @@ ("S" :> "s") @@ ("T" :> "t")
  @@ ("U" :> "u") @@ ("V" :> "v") @@ ("W" :> "w") @@ ("X" :> "x") @@ ("Y" :> "y")
  @@ ("Z" :> "z")

Lower(c) == IF c \in DOMAIN LowerMap THEN LowerMap[c] ELSE c

(* Series.str.contains(pat, case=False): re.search of pat, whose           *)
(* characters here are all literal, at some offset of the name.            *)
MatchAt(s, p, off) == \A j \in 1..Len(p) : Lower(s[off + j]) = Lower(p[j])

StrContains(name, pat) ==
    LET s == Chars[name]
        p == Chars[pat]
    IN  \E off \in 0..(Len(s) - Len(p)) : MatchAt(s, p, off)

-----------------------------------------------------------------------------
(* DataFrame.query.  pandas parses the expression first and raises on a    *)
(* string it cannot parse; a parsed expression selects rows.               *)
Parses(expr) == expr \in {NotInDE, InDE}

Eval(expr, row) ==
    CASE expr = NotInDE -> row.Country \notin {"DE"}
      [] expr = InDE    -> row.Country \in {"DE"}

Query(df, expr) == SelectSeq(df, LAMBDA row : Eval(expr, row))

\* Series.unique(): the values in order of first appearance
RECURSIVE Unique(_)
Unique(s) ==
    IF s = << >> THEN << >>
    ELSE LET u == Unique(SubSeq(s, 1, Len(s) - 1))
             v == s[Len(s)]
         IN  IF \E i \in 1..Len(u) : u[i] = v THEN u ELSE Append(u, v)

Column(df, col) == [i \in 1..Len(df) |-> df[i][col]]

Range(s) == { s[i] : i \in 1..Len(s) }

-----------------------------------------------------------------------------
Init ==
    /\ n_buses \in SubTables(BusCatalogue, MaxBuses) \ {<< >>}
    /\ pm_powerplants \in SubTables(BaseCatalogue, MaxBase)
    /\ custom_csv \in SubTables(CustomCatalogue, MaxCustom)
    /\ ppl_query \in PowerplantsFilters
    /\ custom_ppl_query \in CustomPowerplants
    /\ countries = << >>
    /\ ppl = << >>
    /\ nuc = << >>
    /\ k = 0
    /\ cntries_without_ppl = << >>
    /\ stdout = << >>
    /\ warnings = << >>
    /\ csv = << >>
    /\ written = FALSE
    /\ completed = {}
    /\ pc = "load"

\* the query without its country condition
BaseQuery_AnyCountry(row, cs) == row.Fueltype \notin {"Solar", "Wind"}

(* Lines 198-215: the network's countries and the database restricted to   *)
(* them and to the fuels other than Solar and Wind; Technology             *)
(* 'Steam Turbine' becomes 'OCGT' and Fueltype 'Natural Gas' becomes the   *)
(* row's Technology.  DateIn is numeric, so .replace('2006', '1985'), which *)
(* replaces the string '2006', changes no DateIn (lines 211-214).          *)
BaseQuery(row, cs) ==
    /\ row.Fueltype \notin {"Solar", "Wind"}
    /\ row.Country \in Range(cs)

ReplaceTechnology(row) ==
    IF row.Technology = "Steam Turbine" THEN [row EXCEPT !.Technology = "OCGT"] ELSE row

AssignFueltype(row) ==
    IF row.Fueltype # "Natural Gas" THEN row ELSE [row EXCEPT !.Fueltype = row.Technology]

LoadPowerplants(raw, cs) ==
    LET q == SelectSeq(raw, LAMBDA row : BaseQuery(row, cs))
    IN  [i \in 1..Len(q) |-> AssignFueltype(ReplaceTechnology(q[i]))]

Load ==
    /\ pc = "load"
    /\ countries' = Unique(Column(n_buses, "country"))
    /\ ppl' = LoadPowerplants(pm_powerplants, countries')
    /\ pc' = "filter"
    /\ completed' = completed \cup {"load"}
    /\ UNCHANGED <<inputs, nuc, k, cntries_without_ppl, stdout, warnings, csv, written>>

\* ppl.query without inplace=True: the result is dropped
PowerplantsFilter_NotInplace ==
    /\ pc = "filter"
    /\ ppl' = ppl
    /\ pc' = IF ~IsStr(ppl_query) \/ Parses(ppl_query) THEN "custom" ELSE "aborted"
    /\ completed' = IF pc' = "custom" THEN completed \cup {"filter"} ELSE completed
    /\ UNCHANGED <<inputs, countries, nuc, k, cntries_without_ppl, stdout, warnings,
                   csv, written>>

(* Lines 218-220.  An exception of ppl.query ends the script.              *)
PowerplantsFilter ==
    /\ pc = "filter"
    /\ IF ~IsStr(ppl_query)
         THEN ppl' = ppl /\ pc' = "custom"
         ELSE IF Parses(ppl_query)
                THEN ppl' = Query(ppl, ppl_query) /\ pc' = "custom"
                ELSE ppl' = ppl /\ pc' = "aborted"
    /\ completed' = IF pc' = "custom" THEN completed \cup {"filter"} ELSE completed
    /\ UNCHANGED <<inputs, countries, nuc, k, cntries_without_ppl, stdout, warnings,
                   csv, written>>

\* the custom rows appended without their query
AddCustomResult_Unfiltered(df, csvrows, q) ==
    IF Not(q) THEN [ok |-> TRUE, ppl |-> df]
    ELSE IF ~IsStr(q) THEN [ok |-> TRUE, ppl |-> df \o csvrows]
    ELSE IF Parses(q) THEN [ok |-> TRUE, ppl |-> df \o csvrows]
    ELSE [ok |-> FALSE, ppl |-> df]

\* the exception of the custom query caught and passed over
AddCustomResult_Swallow(df, csvrows, q) ==
    IF Not(q) THEN [ok |-> TRUE, ppl |-> df]
    ELSE IF ~IsStr(q) THEN [ok |-> TRUE, ppl |-> df \o csvrows]
    ELSE IF Parses(q) THEN [ok |-> TRUE, ppl |-> df \o Query(csvrows, q)]
    ELSE [ok |-> TRUE, ppl |-> df \o csvrows]

(* Lines 89-97 and 222.  append(ignore_index=True) relabels the rows       *)
(* 0..n-1, which positions already are.                                    *)
AddCustomResult(df, csvrows, q) ==
    IF Not(q) THEN [ok |-> TRUE, ppl |-> df]
    ELSE IF ~IsStr(q) THEN [ok |-> TRUE, ppl |-> df \o csvrows]
    ELSE IF Parses(q) THEN [ok |-> TRUE, ppl |-> df \o Query(csvrows, q)]
    ELSE [ok |-> FALSE, ppl |-> df]

AddCustomPowerplants ==
    /\ pc = "custom"
    /\ LET r == AddCustomResult(ppl, custom_csv, custom_ppl_query)
       IN  /\ ppl' = r.ppl
           /\ pc' = IF r.ok THEN "nuclear" ELSE "aborted"
           /\ completed' = IF r.ok THEN completed \cup {"custom"} ELSE completed
    /\ UNCHANGED <<inputs, countries, nuc, k, cntries_without_ppl, stdout, warnings,
                   csv, written>>

-----------------------------------------------------------------------------
(* correct_nuclear_data, lines 173-190.                                    *)

\* the rows of every fuel type
RECURSIVE NuclearRows_AllFuels(_, _)
NuclearRows_AllFuels(df, i) ==
    IF i > Len(df) THEN << >>
    ELSE <<[idx |-> i, Name |-> df[i].Name, DateIn |-> df[i].DateIn,
            Capacity |-> df[i].Capacity]>>
         \o NuclearRows_AllFuels(df, i + 1)

\* line 173: the Name, DateIn and Capacity of the rows with Fueltype "Nuclear"
RECURSIVE NuclearRows(_, _)
NuclearRows(df, i) ==
    IF i > Len(df) THEN << >>
    ELSE (IF df[i].Fueltype = "Nuclear"
            THEN <<[idx |-> i, Name |-> df[i].Name, DateIn |-> df[i].DateIn,
                    Capacity |-> df[i].Capacity]>>
            ELSE << >>)
         \o NuclearRows(df, i + 1)

\* lines 175 and 183: name_match_b
NameMatch(nucdf, name) == { j \in 1..Len(nucdf) : StrContains(nucdf[j].Name, name) }

\* += in place of =
ApplyEntry_Add(nucdf, col, e) ==
    LET name_match_b == NameMatch(nucdf, e.key)
    IN  IF name_match_b # {}
          THEN [j \in 1..Len(nucdf) |->
                  IF j \in name_match_b THEN [nucdf[j] EXCEPT ![col] = @ + e.value]
                                        ELSE nucdf[j]]
          ELSE nucdf

\* lines 176-177 and 184-185: the rows of nuc after one entry of a table
ApplyEntry(nucdf, col, e) ==
    LET name_match_b == NameMatch(nucdf, e.key)
    IN  IF name_match_b # {}
          THEN [j \in 1..Len(nucdf) |->
                  IF j \in name_match_b THEN [nucdf[j] EXCEPT ![col] = e.value]
                                        ELSE nucdf[j]]
          ELSE nucdf

\* lines 178-179 and 186-187: what one entry prints
PrintEntry(nucdf, e) ==
    IF NameMatch(nucdf, e.key) # {}
      THEN << >>
      ELSE << <<"'", e.key, "' was not found in given DataFrame.">> >>

\* lines 180 and 188: ppl.loc[nuc.index, col] = nuc[col]
WriteBack(df, nucdf, col) ==
    [i \in 1..Len(df) |->
        IF \E j \in 1..Len(nucdf) : nucdf[j].idx = i
          THEN LET j == CHOOSE j \in 1..Len(nucdf) : nucdf[j].idx = i
               IN  [df[i] EXCEPT ![col] = nucdf[j][col]]
          ELSE df[i]]

CorrectNuclearSelect ==
    /\ pc = "nuclear"
    /\ nuc' = NuclearRows(ppl, 1)
    /\ k' = 1
    /\ pc' = "year"
    /\ UNCHANGED <<inputs, countries, ppl, cntries_without_ppl, stdout, warnings,
                   csv, written, completed>>

\* one iteration of the loop of lines 174-180
CorrectYear ==
    /\ pc = "year"
    /\ LET e == YearCommercial[k]
       IN  /\ nuc' = ApplyEntry(nuc, "DateIn", e)
           /\ stdout' = stdout \o PrintEntry(nuc, e)
           /\ ppl' = WriteBack(ppl, nuc', "DateIn")
    /\ IF k < Len(YearCommercial)
         THEN k' = k + 1 /\ pc' = "year"
         ELSE k' = 1 /\ pc' = "capacity"
    /\ UNCHANGED <<inputs, countries, cntries_without_ppl, warnings, csv, written,
                   completed>>

\* one iteration of the loop of lines 182-188
CorrectCapacity ==
    /\ pc = "capacity"
    /\ LET e == Capacity[k]
       IN  /\ nuc' = ApplyEntry(nuc, "Capacity", e)
           /\ stdout' = stdout \o PrintEntry(nuc, e)
           /\ ppl' = WriteBack(ppl, nuc', "Capacity")
    /\ IF k < Len(Capacity)
         THEN k' = k + 1 /\ pc' = "capacity"
         ELSE k' = 0 /\ pc' = "countries"
    /\ completed' = IF pc' = "countries" THEN completed \cup {"nuclear"} ELSE completed
    /\ UNCHANGED <<inputs, countries, cntries_without_ppl, warnings, csv, written>>

(* correct_nuclear_data as a function of the table: both passes, run to    *)
(* the end, on a table it is handed.                                       *)
(* The entries i, i + 1, ... of a table applied in order.  An entry keeps  *)
(* the number of rows; testing it makes TLC compute the rows after entry i *)
(* before it goes on to entry i + 1.                                       *)
RECURSIVE CorrectPass(_, _, _, _)
CorrectPass(nucdf, col, table, i) ==
    IF i > Len(table) THEN nucdf
    ELSE LET next == ApplyEntry(nucdf, col, table[i])
         IN  IF Len(next) = Len(nucdf) THEN CorrectPass(next, col, table, i + 1) ELSE next

correct_nuclear_data(df) ==
    LET nuc0 == NuclearRows(df, 1)
        nuc1 == CorrectPass(nuc0, "DateIn", YearCommercial, 1)
        df1  == WriteBack(df, nuc1, "DateIn")
        nuc2 == CorrectPass(nuc1, "Capacity", Capacity, 1)
    IN  WriteBack(df1, nuc2, "Capacity")

-----------------------------------------------------------------------------
(* Lines 226-243: the matching loop, the warnings and the output.          *)

\* line 226
CountriesWithoutPpl ==
    /\ pc = "countries"
    /\ cntries_without_ppl' =
          SelectSeq(countries, LAMBDA c : c \notin Range(Unique(Column(ppl, "Country"))))
    /\ IF Len(countries) > 0
         THEN k' = 1 /\ pc' = "match"
         ELSE k' = 0 /\ pc' = "warn"
    /\ completed' = IF pc' = "warn" THEN completed \cup {"match"} ELSE completed
    /\ UNCHANGED <<inputs, countries, ppl, nuc, stdout, warnings, csv, written>>

\* the substations of every country at once
SubstationI_AnyCountry(buses, c) ==
    Column(SelectSeq(buses, LAMBDA b : b.substation_lv), "id")

\* line 229: n.buses.query('substation_lv and country == @c').index
SubstationI(buses, c) ==
    Column(SelectSeq(buses, LAMBDA b : b.substation_lv /\ b.country = c), "id")

\* line 230: n.buses.loc[substation_i, ['x','y']].values
BusById(buses, id) == buses[CHOOSE i \in 1..Len(buses) : buses[i].id = id]

TreeData(buses, substation_i) ==
    [t \in 1..Len(substation_i) |->
        <<BusById(buses, substation_i[t]).x, BusById(buses, substation_i[t]).y>>]

\* line 231: ppl.query('Country == @c').index
PplI(df, c) == { i \in 1..Len(df) : df[i].Country = c }

\* line 233: ppl.loc[ppl_i, ['lon','lat']].values, one row of it
LonLat(row) == <<row.lon, row.lat>>

Dist2(a, b) == (a[1] - b[1]) * (a[1] - b[1]) + (a[2] - b[2]) * (a[2] - b[2])

\* the comparison of distances the wrong way round
KDTreeQuery_Farthest(data, pt) ==
    IF Len(data) = 0
      THEN {Len(data) + 1}
      ELSE { t \in 1..Len(data) :
               \A u \in 1..Len(data) : Dist2(data[t], pt) >= Dist2(data[u], pt) }

(* cKDTree.query(x)[1] for one point: the position of a nearest point of   *)
(* the tree, and the tree's size n (here, with positions from 1, n + 1)    *)
(* when there is no neighbour, as in the tree of a country without         *)
(* eligible substation.  Which of several nearest points at the same       *)
(* distance is returned is the tree's own affair: any of them.             *)
KDTreeQuery(data, pt) ==
    IF Len(data) = 0
      THEN {Len(data) + 1}
      ELSE { t \in 1..Len(data) :
               \A u \in 1..Len(data) : Dist2(data[t], pt) <= Dist2(data[u], pt) }

\* line 234: substation_i.append(pd.Index([np.nan]))
AppendNaN(substation_i) == substation_i \o <<NaN>>

\* only the rows that have no bus yet are given one
LocSetBus_KeepGiven(df, ppl_i, values) ==
    [i \in 1..Len(df) |->
        IF i \in ppl_i /\ df[i].bus = NaN THEN [df[i] EXCEPT !.bus = values[i]] ELSE df[i]]

\* line 234: ppl.loc[ppl_i, 'bus'] = values
LocSetBus(df, ppl_i, values) ==
    [i \in 1..Len(df) |-> IF i \in ppl_i THEN [df[i] EXCEPT !.bus = values[i]] ELSE df[i]]

\* one iteration of the loop of lines 228-234
MatchCountry ==
    /\ pc = "match"
    /\ LET c == countries[k]
           substation_i == SubstationI(n_buses, c)
           data == TreeData(n_buses, substation_i)
           ppl_i == PplI(ppl, c)
       IN  \E tree_i \in [ppl_i -> 1..(Len(data) + 1)] :
              /\ \A i \in ppl_i : tree_i[i] \in KDTreeQuery(data, LonLat(ppl[i]))
              /\ ppl' = LocSetBus(ppl, ppl_i,
                                  [i \in ppl_i |-> AppendNaN(substation_i)[tree_i[i]]])
    /\ IF k < Len(countries)
         THEN k' = k + 1 /\ pc' = "match"
         ELSE k' = 0 /\ pc' = "warn"
    /\ completed' = IF pc' = "warn" THEN completed \cup {"match"} ELSE completed
    /\ UNCHANGED <<inputs, countries, nuc, cntries_without_ppl, stdout, warnings,
                   csv, written>>

\* lines 236-241
NoPowerplantsMsg == "No powerplants known in: "
NoBusMsg == "Couldn't find close bus for {} powerplants"

BusNull(df) == { i \in 1..Len(df) : df[i].bus = NaN }

LogWarnings ==
    /\ pc = "warn"
    /\ warnings' =
          (IF cntries_without_ppl # << >>
             THEN << [msg |-> NoPowerplantsMsg, arg |-> cntries_without_ppl] >>
             ELSE << >>)
          \o
          (IF BusNull(ppl) # {}
             THEN << [msg |-> NoBusMsg, arg |-> Cardinality(BusNull(ppl))] >>
             ELSE << >>)
    /\ pc' = "to_csv"
    /\ UNCHANGED <<inputs, countries, ppl, nuc, k, cntries_without_ppl, stdout,
                   csv, written, completed>>

\* line 243
ToCsv ==
    /\ pc = "to_csv"
    /\ csv' = ppl
    /\ written' = TRUE
    /\ pc' = "done"
    /\ UNCHANGED <<inputs, countries, ppl, nuc, k, cntries_without_ppl, stdout,
                   warnings, completed>>

Next ==
    \/ Load
    \/ PowerplantsFilter
    \/ AddCustomPowerplants
    \/ CorrectNuclearSelect
    \/ CorrectYear
    \/ CorrectCapacity
    \/ CountriesWithoutPpl
    \/ MatchCountry
    \/ LogWarnings
    \/ ToCsv

Spec == Init /\ [][Next]_vars

-----------------------------------------------------------------------------
(* Properties.  They are stated on the inputs and the tables, not with the *)
(* operators the matching and the merge are built from.                    *)

NetCountries == { n_buses[i].country : i \in 1..Len(n_buses) }

\* the positions in n.buses of the eligible substations of country c
Eligible(c) ==
    { s \in 1..Len(n_buses) : n_buses[s].substation_lv /\ n_buses[s].country = c }

PlantsIn(c) == { i \in 1..Len(ppl) : ppl[i].Country = c }

Matched == pc \in {"warn", "to_csv", "done"}

Merged == pc \in {"nuclear", "year", "capacity", "countries", "match", "warn",
                  "to_csv", "done"}

InNetwork(id) == \E s \in 1..Len(n_buses) : n_buses[s].id = id

\* C1: after matching, in a country with an eligible substation every plant
\* has a bus, and the bus is an eligible substation of that same country.
C1_BusInOwnCountry ==
    Matched =>
      \A c \in NetCountries :
        Eligible(c) # {} =>
          \A i \in PlantsIn(c) :
            /\ ppl[i].bus # NaN
            /\ \E s \in Eligible(c) : n_buses[s].id = ppl[i].bus

\* a French plant got a French bus although a German substation is nearer
C1_Witness ==
    /\ pc = "done"
    /\ InNetwork("S4")
    /\ \E i \in 1..Len(csv) :
          /\ csv[i].Country = "FR" /\ csv[i].lon = 500 /\ csv[i].lat = 4500
          /\ csv[i].bus = "S1"

\* the lines logging.warning was handed that list countries
ReportedCountries ==
    UNION { Range(warnings[j].arg) :
              j \in { j \in 1..Len(warnings) : warnings[j].msg = NoPowerplantsMsg } }

NoBusCount ==
    IF \E j \in 1..Len(warnings) : warnings[j].msg = NoBusMsg
      THEN (warnings[CHOOSE j \in 1..Len(warnings) : warnings[j].msg = NoBusMsg]).arg
      ELSE 0

\* C2 as claimed: in a country without eligible substation every plant ends
\* with a null bus and the country is in a reported list of countries.
C2_Original ==
    pc = "done" =>
      \A c \in NetCountries :
        Eligible(c) = {} =>
          /\ \A i \in PlantsIn(c) : ppl[i].bus = NaN
          /\ c \in ReportedCountries

\* C2 amended: in a country without eligible substation every plant ends with
\* a null bus, a bus the custom file gave included, and is counted by the
\* "Couldn't find close bus" warning; the country itself is reported exactly
\* when the table has no plant in it.
C2_NullBusCounted ==
    pc = "done" =>
      \A c \in NetCountries :
        Eligible(c) = {} =>
          /\ \A i \in PlantsIn(c) : ppl[i].bus = NaN
          /\ NoBusCount >= Cardinality(PlantsIn(c))
          /\ c \in ReportedCountries <=> PlantsIn(c) = {}

\* the custom German plant came with bus X9 and ends without a bus
C2_Witness ==
    /\ pc = "done"
    /\ "DE" \in NetCountries /\ Eligible("DE") = {}
    /\ \E j \in 1..Len(custom_csv) : custom_csv[j].Country = "DE" /\ custom_csv[j].bus = "X9"
    /\ \E i \in 1..Len(csv) : csv[i].src = "custom" /\ csv[i].Country = "DE" /\ csv[i].bus = NaN
    /\ NoBusCount >= 1

SquaredDistance(s, i) ==
      (n_buses[s].x - ppl[i].lon) * (n_buses[s].x - ppl[i].lon)
    + (n_buses[s].y - ppl[i].lat) * (n_buses[s].y - ppl[i].lat)

\* C3: the bus of a plant is an eligible substation of the plant's country
\* that no eligible substation of that country is strictly nearer than.
C3_NearestSubstation ==
    Matched =>
      \A c \in NetCountries :
        Eligible(c) # {} =>
          \A i \in PlantsIn(c) :
            \E s \in Eligible(c) :
              /\ n_buses[s].id = ppl[i].bus
              /\ \A t \in Eligible(c) : SquaredDistance(s, i) <= SquaredDistance(t, i)

\* the plant at (5.00, 45.00) with S1 at (5.01, 45.01) and S2 at (10, 50)
C3_Witness ==
    /\ pc = "done"
    /\ InNetwork("S1") /\ InNetwork("S2")
    /\ \E i \in 1..Len(csv) :
          csv[i].Country = "FR" /\ csv[i].lon = 500 /\ csv[i].lat = 4500 /\ csv[i].bus = "S1"

\* the rows of a table an option keeps: all of them for a boolean, those
\* satisfying the query for a string
Satisfies(q, row) == IF q = NotInDE THEN row.Country # "DE" ELSE row.Country = "DE"

Kept(df, q) == { i \in 1..Len(df) : q \in {False, True_} \/ Satisfies(q, df[i]) }

\* the rows of the database the script starts from (lines 201-204)
BaseRows ==
    { i \in 1..Len(pm_powerplants) :
        /\ pm_powerplants[i].Fueltype \notin {"Solar", "Wind"}
        /\ pm_powerplants[i].Country \in NetCountries }

BaseKept ==
    { i \in BaseRows : ppl_query \in {False, True_} \/ Satisfies(ppl_query, pm_powerplants[i]) }

CustomKept == IF custom_ppl_query = False THEN {} ELSE Kept(custom_csv, custom_ppl_query)

\* C4: the merged table has as many rows as the base rows the filter keeps
\* plus, when custom plants are enabled, the custom rows their option keeps.
C4_RowCount ==
    Merged => Len(ppl) = Cardinality(BaseKept) + Cardinality(CustomKept)

\* the filter dropped a base row, the custom option kept a row
C4_Witness ==
    /\ pc = "nuclear"
    /\ ppl_query = NotInDE /\ custom_ppl_query = InDE
    /\ Cardinality(BaseKept) < Cardinality(BaseRows)
    /\ BaseKept # {}
    /\ CustomKept # {}

\* C5: every row of the merged table is a base row satisfying
\* powerplants_filter or a custom row satisfying custom_powerplants; with
\* "Country not in ['DE']" and "Country in ['DE']" the DE rows are exactly
\* the custom rows.
C5_RowsSatisfyFilters ==
    Merged =>
      /\ \A i \in 1..Len(ppl) :
            \/ /\ ppl[i].src = "base"
               /\ ppl_query \in {False, True_} \/ Satisfies(ppl_query, ppl[i])
            \/ /\ ppl[i].src = "custom"
               /\ custom_ppl_query # False
               /\ custom_ppl_query = True_ \/ Satisfies(custom_ppl_query, ppl[i])
      /\ (ppl_query = NotInDE /\ custom_ppl_query = InDE) =>
            \A i \in 1..Len(ppl) : ppl[i].Country = "DE" <=> ppl[i].src = "custom"

\* the database had a German plant of the network; the table's German rows
\* are custom
C5_Witness ==
    /\ pc = "nuclear"
    /\ ppl_query = NotInDE /\ custom_ppl_query = InDE
    /\ \E i \in BaseRows : pm_powerplants[i].Country = "DE"
    /\ \E i \in 1..Len(ppl) : ppl[i].Country = "DE" /\ ppl[i].src = "custom"
    /\ \E i \in 1..Len(ppl) : ppl[i].src = "base"

Matching == pc \in {"match", "warn", "to_csv", "done"}

\* C6 as claimed: every record in the matching stage and in the output has
\* a Country of the network.
C6_Original ==
    /\ Matching => \A i \in 1..Len(ppl) : ppl[i].Country \in NetCountries
    /\ written => \A i \in 1..Len(csv) : csv[i].Country \in NetCountries

CustomRowsOf(df) == SelectSeq(df, LAMBDA row : row.src = "custom")

CustomKeptRows == SelectSeq(custom_csv,
                            LAMBDA row : /\ custom_ppl_query # False
                                         /\ custom_ppl_query = True_
                                              \/ Satisfies(custom_ppl_query, row))

\* C6 amended: every record of the database in the matching stage has a
\* Country of the network; the custom records are all there whatever their
\* Country, and one whose Country is not in the network keeps the bus it
\* came with, up to the output.
C6_BaseInNetwork ==
    /\ Matching =>
         /\ \A i \in 1..Len(ppl) : ppl[i].src = "base" => ppl[i].Country \in NetCountries
         /\ Len(CustomRowsOf(ppl)) = Len(CustomKeptRows)
         /\ \A j \in 1..Len(CustomKeptRows) :
               /\ CustomRowsOf(ppl)[j].Name = CustomKeptRows[j].Name
               /\ CustomKeptRows[j].Country \notin NetCountries =>
                     CustomRowsOf(ppl)[j].bus = CustomKeptRows[j].bus
    /\ written => csv = ppl

\* a custom plant of a country the network does not have is in the output
C6_Witness ==
    /\ pc = "done"
    /\ \E i \in 1..Len(pm_powerplants) : pm_powerplants[i].Country \notin NetCountries
    /\ \E i \in 1..Len(csv) : csv[i].src = "base"
    /\ \E i \in 1..Len(csv) :
          csv[i].src = "custom" /\ csv[i].Country \notin NetCountries /\ csv[i].bus = "X9"

Malformed(q) == q \notin {False, True_, NotInDE, InDE}

\* C7: with a malformed powerplants_filter or custom_powerplants no output is
\* ever written; the output step is reached only with load, filter, custom
\* merge, nuclear correction and matching completed; a failed run has no
\* output.
C7_NoOutputAfterError ==
    /\ (Malformed(ppl_query) \/ Malformed(custom_ppl_query)) =>
          ~written /\ pc \notin {"to_csv", "done"}
    /\ pc \in {"to_csv", "done"} =>
          completed = {"load", "filter", "custom", "nuclear", "match"}
    /\ pc = "aborted" => ~written /\ csv = << >>
    /\ written => pc = "done"

\* the run failed on a malformed custom_powerplants after the base filter ran
C7_Witness ==
    /\ pc = "aborted"
    /\ ppl_query = NotInDE /\ Malformed(custom_ppl_query)
    /\ "filter" \in completed
    /\ ~written

\* C8: nuclear correction applied to the corrected table changes no DateIn
\* and no Capacity.
C8_Idempotent ==
    pc = "countries" =>
      LET again == correct_nuclear_data(ppl)
      IN  /\ Len(again) = Len(ppl)
          /\ \A i \in 1..Len(ppl) :
                /\ again[i].DateIn = ppl[i].DateIn
                /\ again[i].Capacity = ppl[i].Capacity

\* a plant whose name contains 'Chooz' and 'Civaux' has the values of the
\* later entry
C8_Witness ==
    /\ pc = "countries"
    /\ \E i \in 1..Len(ppl) :
          /\ ppl[i].Name = "CHOOZ-civaux" /\ ppl[i].Fueltype = "Nuclear"
          /\ ppl[i].DateIn = 2002 /\ ppl[i].Capacity = 2990

\* the rows an entry targets
Targets(e) ==
    { i \in 1..Len(ppl) : ppl[i].Fueltype = "Nuclear" /\ StrContains(ppl[i].Name, e.key) }

EntryEffect(col, e) ==
    /\ Len(ppl') = Len(ppl)
    /\ \A i \in 1..Len(ppl) :
          ppl'[i] = IF i \in Targets(e) THEN [ppl[i] EXCEPT ![col] = e.value] ELSE ppl[i]
    /\ IF Targets(e) = {}
         THEN /\ ppl' = ppl
              /\ stdout' = Append(stdout, <<"'", e.key, "' was not found in given DataFrame.">>)
         ELSE stdout' = stdout

\* C9: one correction entry sets the DateIn (a year entry) or the Capacity (a
\* capacity entry) of exactly the Nuclear rows whose Name contains the entry's
\* substring, whatever the case, and changes nothing else; with no such row
\* it prints a line naming the entry and alters no row.
C9_OneEntry ==
    [][ /\ pc = "year" => EntryEffect("DateIn", YearCommercial[k])
        /\ pc = "capacity" => EntryEffect("Capacity", Capacity[k]) ]_vars

\* 'Fessenheim' set the Capacity of "Fessenheim Unit 1" to 0, left the gas
\* plant "Chooz GT" alone, and 'St laurent' found no row
C9_Witness ==
    /\ pc = "countries"
    /\ \E i \in 1..Len(ppl) :
          /\ ppl[i].Name = "Fessenheim Unit 1" /\ ppl[i].Fueltype = "Nuclear"
          /\ ppl[i].Capacity = 0 /\ ppl[i].DateIn = 1978
    /\ \E i \in 1..Len(ppl) : ppl[i].Name = "Chooz GT" /\ ppl[i].Capacity = 300
    /\ \E j \in 1..Len(stdout) : stdout[j][2] = "St laurent"

=============================================================================
